---- MODULE Spec2Model ----
(***************************************************************************)
(* registry_client: ImageClient.auth_header and ImageClient.pull_image     *)
(* (src/client.py) with the challenge handling of                          *)
(* src/registry_client/utlis.py, as a state machine; and the functions of  *)
(* src/registry_client/reference.py and ManifestsListResp.filter, each     *)
(* applied to an argument drawn in the initial state.                      *)
(*                                                                         *)
(* A Python string is a sequence of tokens.  A digest string is spelt      *)
(* character by character up to and including the colon, so that           *)
(* startswith("sha256:") and the slice [7:] are positional, as in the      *)
(* code.  The strings src/registry_client/reference.py works on are spelt  *)
(* character by character throughout.  An optional value is a set: None    *)
(* is {}, a value v is {v}.  A dict of HTTP headers is a set of            *)
(* <<name, value>> pairs.                                                  *)
(***************************************************************************)
EXTENDS Integers, Sequences, FiniteSets, TLC

\* Longest layer list of a manifest the registry serves.
MaxLayers == 3

None == {}
Some(v) == {v}
The(o) == CHOOSE v \in o : TRUE

\* str.startswith, str.endswith and the slice s[n:]
StartsWith(s, pre) == Len(s) >= Len(pre) /\ SubSeq(s, 1, Len(pre)) = pre
EndsWith(s, suf) == Len(s) >= Len(suf) /\ SubSeq(s, Len(s) - Len(suf) + 1, Len(s)) = suf
From(s, n) == IF n >= Len(s) THEN << >> ELSE SubSeq(s, n + 1, Len(s))

Sha256Prefix == <<"s", "h", "a", "2", "5", "6", ":">>
Sha512Prefix == <<"s", "h", "a", "5", "1", "2", ":">>

IMAGE_DEFAULT_TAG == <<"latest">>
DEFAULT_REPO == <<"l", "i", "b", "r", "a", "r", "y">>
DEFAULT_REGISTRY_HOST ==
    <<"r", "e", "g", "i", "s", "t", "r", "y", "-", "1", ".", "d", "o", "c", "k", "e", "r", ".", "i", "o">>

\* ThreadPoolExecutor(max_workers=5)
max_workers == 5

(***************************************************************************)
(* Contents served by the registry and their SHA-256.  hashlib.sha256 is   *)
(* a table over the bounded set of contents: injective on the manifests,   *)
(* and giving the two layer archives and the two config documents the      *)
(* hashes the digests below name.                                          *)
(***************************************************************************)
HexDigits == <<"0", "1", "2", "3", "4", "5", "6", "7", "8", "9", "a", "b", "c", "d", "e", "f">>
HexPair(n) == <<HexDigits[(n \div 16) + 1], HexDigits[(n % 16) + 1]>>

DigestA == Sha256Prefix \o <<"a", "a">>
DigestB == Sha256Prefix \o <<"b", "b">>
LayerDigests == {DigestA, DigestB}
ConfigDigest == Sha256Prefix \o <<"c", "1">>

GzipA == [kind |-> "gzip", id |-> 170, config |-> None, layers |-> << >>]
GzipB == [kind |-> "gzip", id |-> 187, config |-> None, layers |-> << >>]
ConfigJson1 == [kind |-> "json", id |-> 193, config |-> None, layers |-> << >>]
ConfigJson2 == [kind |-> "json", id |-> 194, config |-> None, layers |-> << >>]
ErrorText == [kind |-> "text", id |-> 255, config |-> None, layers |-> << >>]

RECURSIVE EncodeLayers(_)
EncodeLayers(ls) ==
    IF ls = << >> THEN 0
    ELSE (IF Head(ls) = DigestA THEN 1 ELSE 2) + 3 * EncodeLayers(Tail(ls))

ManifestBody(ls) ==
    [kind |-> "manifest", id |-> (EncodeLayers(ls) + 1) % 160,
     config |-> Some(ConfigDigest), layers |-> ls]

LayerLists(n) == UNION {[1..k -> LayerDigests] : k \in 0..n}

\* hashlib.sha256(content).hexdigest()
Sha256Hex(content) == HexPair(content.id)

(***************************************************************************)
(* WWW-Authenticate headers.  words is the number of space separated       *)
(* words of the header (scheme word included), params the keys of the      *)
(* comma separated key=value list, realm the host of the realm URL.        *)
(***************************************************************************)
Challenge(scheme, words, params, realm) ==
    [scheme |-> scheme, words |-> words, params |-> params, realm |-> realm]

RealmDockerHub == <<"auth", ".", "docker.io">>
RealmPrivate == <<"a", ".", "com">>

WWWAuthenticate ==
    {Challenge("Bearer", 2, {"realm", "service"}, RealmDockerHub),
     Challenge("Bearer", 2, {"realm", "service"}, RealmPrivate),
     Challenge("Basic", 2, {"realm", "service"}, RealmPrivate),
     Challenge("Basic", 2, {"realm"}, RealmPrivate),
     Challenge("Basic", 3, {"realm"}, RealmPrivate),
     Challenge("Digest", 2, {"realm", "service"}, RealmPrivate),
     Challenge("bearer", 2, {"realm", "service"}, RealmPrivate)}

\* class ChallengeScheme(Enum)
ChallengeScheme == {"Bearer", "Basic"}

Pulls == {"p1", "p2"}

PullArgs(hosts, repos, refs, dirs) ==
    [host : hosts, image_name : {<<"foo">>}, repo_name : repos,
     reference : refs, save_dir : dirs]

\* lines 263-273, client.py run as a script: the one call it makes, on the host
\* registry_info.toml names; save_dir defaults to the current directory
ScriptArgs(hosts) ==
    [host : hosts, image_name : {<<"python">>}, repo_name : {<<"test">>},
     reference : {<<"3.10.6">>}, save_dir : {<<".">>}]

(***************************************************************************)
(* The environment of a run: the arguments callers pass and the responses  *)
(* the registry may give.                                                  *)
(***************************************************************************)
Env ==
    [args |-> PullArgs({DEFAULT_REGISTRY_HOST, <<"a", ".", "com">>},
                       {DEFAULT_REPO, <<"lib">>},
                       {IMAGE_DEFAULT_TAG},
                       {<<"out">>, <<"nodir">>}),
     www |-> {None} \cup {Some(h) : h \in WWWAuthenticate},
     status |-> {200, 404},
     layers |-> LayerLists(MaxLayers),
     failures |-> {"ConnectionError"}]

EnvConc ==
    [args |-> PullArgs({<<"a", ".", "com">>}, {DEFAULT_REPO},
                       {IMAGE_DEFAULT_TAG, <<"v1">>}, {<<"out">>, <<"nodir">>}),
     www |-> {None, Some(Challenge("Bearer", 2, {"realm", "service"}, RealmPrivate))},
     status |-> {200, 404},
     layers |-> LayerLists(1),
     failures |-> {}]

VARIABLES
    pinged,         \* ImageClient._pinged
    ping_resp,      \* ImageClient._ping_resp
    repo,           \* the module global `repo` of client.py, unbound unless run as a script
    pc,             \* position of each pull_image call
    args,           \* arguments of each pull_image call (with the client's host)
    auth,           \* the auth_header call made by each pull
    headers,        \* local headers of pull_image
    head_resp,      \* local head_resp
    main_manifest,  \* local main_manifest
    manifest_resp,  \* the body received by fetch_image_manifest and what it returned
    manifest,       \* local manifest (parsed)
    image_config,   \* local image_config
    jobs,           \* the layer jobs submitted to the executor
    result,         \* how each pull_image call ended
    fs,             \* paths that exist on disk
    wrote,          \* who created or wrote which path
    removed,        \* who removed which path
    manifest_json,  \* what each pull dumped into its manifest.json
    requests,       \* HTTP requests issued by each pull
    call,           \* a call of a function of reference.py or utlis.py: its name and argument
    value           \* what that call returned or raised

vars == <<pinged, ping_resp, repo, pc, args, auth, headers, head_resp, main_manifest,
          manifest_resp, manifest, image_config, jobs, result, fs, wrote, removed,
          manifest_json, requests, call, value>>

client == <<pinged, ping_resp, repo>>
locals == <<headers, head_resp, main_manifest, manifest_resp, manifest, image_config>>
disk == <<fs, wrote, removed, manifest_json>>
calls == <<call, value>>

\* responded: the ping got a response; www: its WWW-Authenticate header
AuthIdle == [pc |-> "idle", responded |-> FALSE, www |-> None, challenge |-> None,
             ret |-> {}, exc |-> None]

NoResult == [returned |-> FALSE, exc |-> None, raised |-> FALSE]

\* the client as constructed, no pull_image call made yet
Constructed ==
    /\ pinged = FALSE
    /\ ping_resp = None
    /\ repo \in {None, Some(<<"test">>)}
    /\ pc = [p \in Pulls |-> "idle"]
    /\ args = [p \in Pulls |-> None]
    /\ auth = [p \in Pulls |-> AuthIdle]
    /\ headers = [p \in Pulls |-> {}]
    /\ head_resp = [p \in Pulls |-> None]
    /\ main_manifest = [p \in Pulls |-> None]
    /\ manifest_resp = [p \in Pulls |->
                          [body |-> None, ret |-> None, exc |-> None, checked |-> FALSE]]
    /\ manifest = [p \in Pulls |-> None]
    /\ image_config = [p \in Pulls |-> None]
    /\ jobs = [p \in Pulls |-> << >>]
    /\ result = [p \in Pulls |-> NoResult]
    /\ fs = {<< <<"out">> >>, << <<".">> >>}
    /\ wrote = {}
    /\ removed = {}
    /\ manifest_json = [p \in Pulls |-> None]
    /\ requests = [p \in Pulls |-> {}]

Init ==
    /\ Constructed
    /\ call = None
    /\ value = None

(***************************************************************************)
(* Exceptions.  An outcome says how a call ended: exc is the exception     *)
(* raised inside it, raised whether it reaches the caller.                 *)
(***************************************************************************)
Outcome(exc) == [returned |-> TRUE, exc |-> exc, raised |-> exc # None]

\* @logger.catch (reraise defaults to False): the exception is logged and the
\* decorated function returns None to its caller.
logger_catch(outcome) == [outcome EXCEPT !.raised = FALSE]

Failures(E, kinds) == {"ok"} \cup (E.failures \cap kinds)

Request(p, method, kind, ref) ==
    requests' = [requests EXCEPT ![p] = @ \cup {[method |-> method, kind |-> kind, ref |-> ref]}]

\* pull_image ends: the exception (if any) meets the @logger.catch of pull_image
Return(p, exc) ==
    /\ pc' = [pc EXCEPT ![p] = "returned"]
    /\ result' = [result EXCEPT ![p] = logger_catch(Outcome(exc))]

(***************************************************************************)
(* auth_header                                                             *)
(***************************************************************************)
\* PingResp.__post_init__: the exception it raises, or the parsed challenge
PingResp(h) ==
    IF h.words # 2 THEN [exc |-> Some("ValueError"), value |-> None]
    ELSE IF h.scheme \notin ChallengeScheme THEN [exc |-> Some("ValueError"), value |-> None]
    ELSE IF "realm" \notin h.params THEN [exc |-> Some("AttributeError"), value |-> None]
    ELSE IF "service" \notin h.params THEN [exc |-> Some("AttributeError"), value |-> None]
    ELSE [exc |-> None, value |-> Some([scheme |-> h.scheme, realm |-> h.realm])]

\* ImageClient.ping, called by auth_header unless self._pinged
ping(p, E) ==
    /\ pc[p] = "auth"
    /\ auth[p].pc = "call"
    /\ IF pinged
       THEN /\ auth' = [auth EXCEPT ![p] = [@ EXCEPT !.pc = "pinged", !.challenge = ping_resp]]
            /\ UNCHANGED requests
       ELSE /\ Request(p, "GET", "v2", << >>)
            /\ \E f \in Failures(E, {"ConnectionError"}), h \in E.www :
                 auth' = [auth EXCEPT ![p] =
                    IF f # "ok" THEN [@ EXCEPT !.pc = "returned", !.exc = Some(f)]
                    ELSE IF h = None THEN [@ EXCEPT !.pc = "pinged", !.responded = TRUE]
                    ELSE IF PingResp(The(h)).exc # None
                         THEN [@ EXCEPT !.pc = "returned", !.responded = TRUE, !.www = h,
                                        !.exc = PingResp(The(h)).exc]
                         ELSE [@ EXCEPT !.pc = "pinged", !.responded = TRUE, !.www = h,
                                        !.challenge = PingResp(The(h)).value]]
    /\ UNCHANGED <<calls, client, pc, args, locals, jobs, result, disk>>

\* _handle_challenges: what it returns or raises for a parsed challenge.  Only Bearer
\* has a handler; the handler is built with positional arguments, which
\* ChallengeHandler.__init__(self, **data) does not take.
handle_challenges(challenge) ==
    IF challenge.scheme # "Bearer" THEN [exc |-> None, ret |-> {}]
    ELSE [exc |-> Some("TypeError"), ret |-> {}]

\* auth_header without the test of line 63: _handle_challenges reads None.scheme
auth_header_no_none_test(challenge) ==
    IF challenge = None THEN [exc |-> Some("AttributeError"), ret |-> {}]
    ELSE handle_challenges(The(challenge))

\* lines 63-65: what auth_header returns or raises for the result of the ping
auth_header_ret(challenge) ==
    IF challenge = None THEN [exc |-> None, ret |-> {}]
    ELSE handle_challenges(The(challenge))

\* auth_header after the ping
auth_header(p) ==
    /\ pc[p] = "auth"
    /\ auth[p].pc = "pinged"
    /\ auth' = [auth EXCEPT ![p] = [@ EXCEPT !.pc = "returned",
                                               !.ret = auth_header_ret(auth[p].challenge).ret,
                                               !.exc = auth_header_ret(auth[p].challenge).exc]]
    /\ UNCHANGED <<calls, client, pc, args, locals, jobs, result, disk, requests>>

(***************************************************************************)
(* pull_image                                                              *)
(***************************************************************************)
\* lines 194-201: the save_dir check, then the call of auth_header
pull_image(p, E) ==
    /\ pc[p] = "idle"
    /\ \E a \in (IF repo = None THEN E.args ELSE ScriptArgs({x.host : x \in E.args})) :
         /\ args' = [args EXCEPT ![p] = Some(a)]
         /\ IF << a.save_dir >> \notin fs
            THEN /\ Return(p, Some("Exception"))
                 /\ UNCHANGED auth
            ELSE /\ pc' = [pc EXCEPT ![p] = "auth"]
                 /\ auth' = [auth EXCEPT ![p] = [AuthIdle EXCEPT !.pc = "call"]]
                 /\ UNCHANGED result
    /\ UNCHANGED <<calls, client, locals, jobs, disk, requests>>

AcceptHeader == <<"Accept", "application/vnd.docker.distribution.manifest.v2+json">>

\* Docker-Content-Digest values a HEAD response may carry
HeadDigests(E) ==
    {None} \cup {Some(Sha256Prefix \o Sha256Hex(ManifestBody(ls))) : ls \in E.layers}
           \cup {Some(Sha512Prefix \o <<"0", "1">>)}

\* lines 201-209: auth_header returns, the HEAD request and its status check
image_manifest_existed(p, E) ==
    /\ pc[p] = "auth"
    /\ auth[p].pc = "returned"
    /\ auth' = [auth EXCEPT ![p] = AuthIdle]
    /\ IF auth[p].exc # None
       THEN /\ Return(p, auth[p].exc)
            /\ UNCHANGED <<headers, head_resp, main_manifest, requests>>
       ELSE /\ headers' = [headers EXCEPT ![p] = auth[p].ret \cup {AcceptHeader}]
            /\ Request(p, "HEAD", "manifests", The(args[p]).reference)
            /\ \E f \in Failures(E, {"ConnectionError"}), st \in E.status, d \in HeadDigests(E) :
                 IF f # "ok"
                 THEN /\ Return(p, Some(f))
                      /\ UNCHANGED <<head_resp, main_manifest>>
                 ELSE IF st # 200
                 THEN /\ d = None
                      /\ head_resp' = [head_resp EXCEPT ![p] = Some([status_code |-> st, digest |-> d])]
                      /\ Return(p, Some("Exception"))
                      /\ UNCHANGED main_manifest
                 ELSE /\ head_resp' = [head_resp EXCEPT ![p] = Some([status_code |-> st, digest |-> d])]
                      /\ main_manifest' = [main_manifest EXCEPT ![p] = d]
                      /\ pc' = [pc EXCEPT ![p] = "fetch"]
                      /\ UNCHANGED result
    /\ UNCHANGED <<calls, client, args, manifest_resp, manifest, image_config, jobs, disk>>

\* fetch_image_manifest with the check of lines 128-131 left out
fetch_image_manifest_unchecked(reference, body) ==
    IF body = None
    THEN [body |-> body, ret |-> None, exc |-> Some("ConnectionError"), checked |-> FALSE]
    ELSE IF reference = None
    THEN [body |-> body, ret |-> None, exc |-> Some("AttributeError"), checked |-> FALSE]
    ELSE [body |-> body, ret |-> body, exc |-> None, checked |-> FALSE]

\* fetch_image_manifest under @logger.catch: reference is the optional digest string,
\* body the response of the GET (None when the transport failed).  ret is what the
\* caller gets, exc the exception the decorator logged, checked whether the body
\* passed the comparison of line 131.
fetch_image_manifest_body(reference, body) ==
    IF body = None
    THEN [body |-> body, ret |-> None, exc |-> Some("ConnectionError"), checked |-> FALSE]
    ELSE IF reference = None
    THEN [body |-> body, ret |-> None, exc |-> Some("AttributeError"), checked |-> FALSE]
    ELSE IF StartsWith(The(reference), Sha256Prefix)
    THEN IF From(The(reference), 7) # Sha256Hex(The(body))
         THEN [body |-> body, ret |-> None, exc |-> Some("AssertionError"), checked |-> FALSE]
         ELSE [body |-> body, ret |-> body, exc |-> None, checked |-> TRUE]
    ELSE [body |-> body, ret |-> body, exc |-> None, checked |-> FALSE]

ManifestBodies(E) == {ManifestBody(ls) : ls \in E.layers} \cup {ErrorText}

RefText(reference) == IF reference = None THEN <<"None">> ELSE The(reference)

\* lines 210-214: fetch_image_manifest (under @logger.catch) and the parse of its result
fetch_image_manifest(p, E) ==
    /\ pc[p] = "fetch"
    /\ Request(p, "GET", "manifests", RefText(main_manifest[p]))
    /\ \E f \in Failures(E, {"ConnectionError"}), b \in ManifestBodies(E) :
         LET r == fetch_image_manifest_body(main_manifest[p], IF f = "ok" THEN Some(b) ELSE None)
         IN /\ manifest_resp' = [manifest_resp EXCEPT ![p] = r]
            /\ IF r.ret = None
               THEN /\ Return(p, Some("AttributeError"))
                    /\ UNCHANGED manifest
               ELSE IF The(r.ret).kind # "manifest"
               THEN /\ Return(p, Some("ValueError"))
                    /\ UNCHANGED manifest
               ELSE /\ manifest' = [manifest EXCEPT ![p] =
                          Some([config |-> The(The(r.ret).config), layers |-> The(r.ret).layers])]
                    /\ pc' = [pc EXCEPT ![p] = "config"]
                    /\ UNCHANGED result
    /\ UNCHANGED <<calls, client, args, auth, headers, head_resp, main_manifest, image_config,
                   jobs, disk>>

\* lines 215-217: _pull_schema2_config
pull_schema2_config(p, E) ==
    /\ pc[p] = "config"
    /\ Request(p, "GET", "blobs", The(manifest[p]).config)
    /\ \E f \in Failures(E, {"ConnectionError"}), b \in {ConfigJson1, ConfigJson2, ErrorText} :
         IF f # "ok"
         THEN /\ Return(p, Some(f))
              /\ UNCHANGED image_config
         ELSE /\ image_config' = [image_config EXCEPT ![p] = Some(b)]
              /\ pc' = [pc EXCEPT ![p] = "write_config"]
              /\ UNCHANGED result
    /\ UNCHANGED <<calls, client, args, auth, headers, head_resp, main_manifest, manifest_resp,
                   manifest, jobs, disk>>

(***************************************************************************)
(* Paths.  A path is the sequence of its components.                       *)
(***************************************************************************)
\* str(index)
IndexStr(i) == <<"0", "1", "2", "3", "4", "5", "6", "7", "8", "9">>[i + 1]

\* image_save_dir = save_dir.joinpath(image_name_with_repo, reference)
image_save_dir(a) == <<a.save_dir, a.repo_name, a.image_name, a.reference>>
Parents(path) == {SubSeq(path, 1, k) : k \in 1..Len(path)}
\* tmp_file = save_dir.joinpath(f"layer_{index}.tar.gz")
tmp_file(a, index) == image_save_dir(a) \o << <<"layer_", IndexStr(index), ".tar.gz">> >>
\* save_dir.joinpath(digest[7:]), the directory GZipDeCompress fills
layer_dir(a, digest) == image_save_dir(a) \o << From(digest, 7) >>
layer_tar(a, digest) == layer_dir(a, digest) \o << <<"layer.tar">> >>
config_file(a, config_digest) == image_save_dir(a) \o << config_digest \o <<".json">> >>
version_file(a) == image_save_dir(a) \o << <<"VERSION">> >>
manifest_file(a) == image_save_dir(a) \o << <<"manifest.json">> >>
\* save_dir.joinpath(f"{repo_name}_{image_name}.tar")
archive_file(a) == <<a.save_dir, a.repo_name \o <<"_">> \o a.image_name \o <<".tar">> >>

Main(p) == <<p, "main">>
Worker(p, k) == <<p, IndexStr(k - 1)>>
Writes(by, paths) == {[by |-> by, path |-> x] : x \in paths}

\* lines 219-227: the working directory (mkdir with exist_ok: made only when
\* missing), <config_digest>.json and VERSION
write_config(p) ==
    /\ pc[p] = "write_config"
    /\ LET a == The(args[p])
           blob == The(image_config[p])
           cfg == config_file(a, Sha256Hex(blob))
       IN IF blob.kind # "json"
          THEN /\ fs' = fs \cup Parents(image_save_dir(a)) \cup {cfg}
               /\ wrote' = wrote \cup Writes(Main(p), ({image_save_dir(a)} \ fs) \cup {cfg})
               /\ Return(p, Some("ValueError"))
          ELSE /\ fs' = fs \cup Parents(image_save_dir(a)) \cup {cfg, version_file(a)}
               /\ wrote' = wrote \cup
                     Writes(Main(p), ({image_save_dir(a)} \ fs) \cup {cfg, version_file(a)})
               /\ pc' = [pc EXCEPT ![p] = "submit"]
               /\ UNCHANGED result
    /\ UNCHANGED <<calls, client, args, auth, locals, jobs, removed, manifest_json, requests>>

Queued == [st |-> "queued", blob |-> None, exc |-> None]

\* lines 229-241: one job per layer of the manifest, in manifest order
executor_submit(p) ==
    /\ pc[p] = "submit"
    /\ jobs' = [jobs EXCEPT ![p] = [k \in 1..Len(The(manifest[p]).layers) |-> Queued]]
    /\ pc' = [pc EXCEPT ![p] = "join"]
    /\ UNCHANGED <<calls, client, args, auth, locals, result, disk, requests>>

Running(p) == {k \in DOMAIN jobs[p] : jobs[p][k].st \in {"streaming", "verified"}}

\* _download_and_decompress_layer, lines 158-169: the GET and the open of tmp_file
layer_request(p, k, E) ==
    /\ pc[p] = "join"
    /\ k \in DOMAIN jobs[p]
    /\ jobs[p][k].st = "queued"
    /\ Cardinality(Running(p)) < max_workers
    /\ Request(p, "GET", "blobs", The(manifest[p]).layers[k])
    /\ \E f \in Failures(E, {"ConnectionError"}) :
         /\ jobs' = [jobs EXCEPT ![p][k] =
               IF f = "ok" THEN [@ EXCEPT !.st = "streaming"]
               ELSE [@ EXCEPT !.st = "failed", !.exc = Some(f)]]
         /\ IF f = "ConnectionError"
            THEN UNCHANGED <<fs, wrote>>
            ELSE /\ fs' = fs \cup {tmp_file(The(args[p]), k - 1)}
                 /\ wrote' = wrote \cup Writes(Worker(p, k), {tmp_file(The(args[p]), k - 1)})
    /\ UNCHANGED <<calls, client, pc, args, auth, locals, result, removed, manifest_json>>

\* line 176: assert hasher.hexdigest() == digest[7:]
layer_digest_ok(digest, blob) == Sha256Hex(blob) = From(digest, 7)

\* lines 170-177: the body is streamed into tmp_file and hashed
layer_stream(p, k) ==
    /\ pc[p] = "join"
    /\ k \in DOMAIN jobs[p]
    /\ jobs[p][k].st = "streaming"
    /\ \E blob \in {GzipA, GzipB} :
         jobs' = [jobs EXCEPT ![p][k] =
            IF layer_digest_ok(The(manifest[p]).layers[k], blob)
            THEN [@ EXCEPT !.st = "verified", !.blob = Some(blob)]
            ELSE [@ EXCEPT !.st = "failed", !.blob = Some(blob), !.exc = Some("AssertionError")]]
    /\ wrote' = wrote \cup Writes(Worker(p, k), {tmp_file(The(args[p]), k - 1)})
    /\ UNCHANGED <<calls, client, pc, args, auth, locals, result, fs, removed, manifest_json, requests>>

\* lines 178-183: GZipDeCompress into the digest's directory, then tmp_file.unlink()
layer_decompress(p, k) ==
    /\ pc[p] = "join"
    /\ k \in DOMAIN jobs[p]
    /\ jobs[p][k].st = "verified"
    /\ LET a == The(args[p])
           d == The(manifest[p]).layers[k]
       IN /\ fs' = (fs \cup {layer_dir(a, d), layer_tar(a, d)}) \ {tmp_file(a, k - 1)}
          /\ wrote' = wrote \cup Writes(Worker(p, k), ({layer_dir(a, d)} \ fs) \cup {layer_tar(a, d)})
          /\ removed' = removed \cup Writes(Worker(p, k), {tmp_file(a, k - 1)})
    /\ jobs' = [jobs EXCEPT ![p][k] = [@ EXCEPT !.st = "done"]]
    /\ UNCHANGED <<calls, client, pc, args, auth, locals, result, manifest_json, requests>>

\* an exit of the executor that does not wait: shutdown(wait=False)
AllJobsFinishedNoWait(p) == TRUE

\* the exit of `with ThreadPoolExecutor(...)`: shutdown(wait=True)
AllJobsFinished(p) == \A k \in DOMAIN jobs[p] : jobs[p][k].st \in {"done", "failed"}

\* line 230-241: leaving the with block
executor_exit(p) ==
    /\ pc[p] = "join"
    /\ AllJobsFinished(p)
    /\ pc' = [pc EXCEPT ![p] = "manifest"]
    /\ UNCHANGED <<calls, client, args, auth, locals, jobs, result, disk, requests>>

\* lines 244-247: the RepoTags entry; `repo` is the module global, g its binding
repo_tags(g, a) ==
    IF a.host = DEFAULT_REGISTRY_HOST /\ The(g) = DEFAULT_REPO
    THEN << a.image_name \o <<":">> \o a.reference >>
    ELSE << a.host \o <<"/">> \o a.repo_name \o <<"/">> \o a.image_name \o <<":">> \o a.reference >>

\* line 244 read at run time: the name `repo` is looked up only when the host
\* comparison holds (`and` short-circuits) and is a NameError when unbound
repo_tags_outcome(g, a) ==
    IF a.host = DEFAULT_REGISTRY_HOST /\ g = None
    THEN [exc |-> Some("NameError"), ret |-> None]
    ELSE [exc |-> None, ret |-> Some(repo_tags(g, a))]

\* line 251 listing the digests last to first
manifest_json_layers_reversed(digests) ==
    [k \in DOMAIN digests |-> From(digests[Len(digests) + 1 - k], 7) \o <<"/layer.tar">>]

\* line 251: "Layers": [f"{digest[7:]}/layer.tar" for digest in digests]
manifest_json_layers(digests) ==
    [k \in DOMAIN digests |-> From(digests[k], 7) \o <<"/layer.tar">>]

\* lines 243-253: manifest.json
write_manifest_json(p) ==
    /\ pc[p] = "manifest"
    /\ LET a == The(args[p])
       IN /\ fs' = fs \cup {manifest_file(a)}
          /\ wrote' = wrote \cup Writes(Main(p), {manifest_file(a)})
          /\ IF repo_tags_outcome(repo, a).exc # None
             THEN /\ Return(p, repo_tags_outcome(repo, a).exc)
                  /\ UNCHANGED manifest_json
             ELSE /\ manifest_json' = [manifest_json EXCEPT ![p] = Some(
                        [Config |-> Sha256Hex(The(image_config[p])) \o <<".json">>,
                         RepoTags |-> The(repo_tags_outcome(repo, a).ret),
                         Layers |-> manifest_json_layers(The(manifest[p]).layers)])]
                  /\ pc' = [pc EXCEPT ![p] = "last_json"]
                  /\ UNCHANGED result
    /\ UNCHANGED <<calls, client, args, auth, locals, jobs, removed, requests>>

\* lines 254-255: json in the directory of the last layer
write_last_layer_json(p) ==
    /\ pc[p] = "last_json"
    /\ LET a == The(args[p])
           digests == The(manifest[p]).layers
       IN IF digests = << >>
          THEN /\ Return(p, Some("IndexError"))
               /\ UNCHANGED <<fs, wrote>>
          ELSE IF layer_dir(a, digests[Len(digests)]) \notin fs
          THEN /\ Return(p, Some("FileNotFoundError"))
               /\ UNCHANGED <<fs, wrote>>
          ELSE /\ fs' = fs \cup {layer_dir(a, digests[Len(digests)]) \o << <<"json">> >>}
               /\ wrote' = wrote \cup
                     Writes(Main(p), {layer_dir(a, digests[Len(digests)]) \o << <<"json">> >>})
               /\ pc' = [pc EXCEPT ![p] = "tar"]
               /\ UNCHANGED result
    /\ UNCHANGED <<calls, client, args, auth, locals, jobs, removed, manifest_json, requests>>

\* lines 257-259: TarImageDir(image_save_dir, <repo_name>_<image_name>.tar).do()
tar_image_dir(p) ==
    /\ pc[p] = "tar"
    /\ fs' = fs \cup {archive_file(The(args[p]))}
    /\ wrote' = wrote \cup Writes(Main(p), {archive_file(The(args[p]))})
    /\ pc' = [pc EXCEPT ![p] = "rmtree"]
    /\ UNCHANGED <<calls, client, args, auth, locals, jobs, result, removed, manifest_json, requests>>

\* line 260: shutil is not imported, the name lookup raises before anything is removed
rmtree(p) ==
    /\ pc[p] = "rmtree"
    /\ Return(p, Some("NameError"))
    /\ UNCHANGED <<calls, client, args, auth, locals, jobs, disk, requests>>

Step(p, E) ==
    \/ pull_image(p, E)
    \/ ping(p, E)
    \/ auth_header(p)
    \/ image_manifest_existed(p, E)
    \/ fetch_image_manifest(p, E)
    \/ pull_schema2_config(p, E)
    \/ write_config(p)
    \/ executor_submit(p)
    \/ \E k \in 1..MaxLayers : layer_request(p, k, E)
    \/ \E k \in 1..MaxLayers : layer_stream(p, k)
    \/ \E k \in 1..MaxLayers : layer_decompress(p, k)
    \/ executor_exit(p)
    \/ write_manifest_json(p)
    \/ write_last_layer_json(p)
    \/ tar_image_dir(p)
    \/ rmtree(p)

\* one pull_image call
Next == Step("p1", Env)
Spec == Init /\ [][Next]_vars

\* two pull_image calls running concurrently
NextConc == \E p \in Pulls : Step(p, EnvConc)
SpecConc == Init /\ [][NextConc]_vars

(***************************************************************************)
(* src/registry_client/reference.py: the reference grammar.  A regular     *)
(* expression of the source is the recogniser of its language, over        *)
(* strings spelt character by character.                                   *)
(***************************************************************************)
Lower == {"a", "b", "c", "d", "e", "f", "g", "h", "i", "j", "k", "l", "m",
          "n", "o", "p", "q", "r", "s", "t", "u", "v", "w", "x", "y", "z"}
Upper == {"A", "B", "C", "D", "E", "F", "G", "H", "I", "J", "K", "L", "M",
          "N", "O", "P", "Q", "R", "S", "T", "U", "V", "W", "X", "Y", "Z"}
Digit == {"0", "1", "2", "3", "4", "5", "6", "7", "8", "9"}

\* every character of s is in the class C
All(s, C) == \A i \in 1..Len(s) : s[i] \in C

\* str.find(c) for a single character, as a position from 1; 0 when c is absent
Find(s, c) ==
    IF \E i \in 1..Len(s) : s[i] = c
    THEN CHOOSE i \in 1..Len(s) : s[i] = c /\ \A j \in 1..(i - 1) : s[j] # c
    ELSE 0

\* str.split(c)
RECURSIVE Split(_, _)
Split(s, c) ==
    IF Find(s, c) = 0 THEN <<s>>
    ELSE <<SubSeq(s, 1, Find(s, c) - 1)>> \o Split(SubSeq(s, Find(s, c) + 1, Len(s)), c)

\* str.islower(): at least one cased character and no uppercase one
islower(s) ==
    /\ \E i \in 1..Len(s) : s[i] \in Lower \cup Upper
    /\ ~\E i \in 1..Len(s) : s[i] \in Upper

\* alpha_numeric = [a-z0-9]+ is a run of these
alpha_numeric == Lower \cup Digit

\* name_component = [a-z0-9]+(?:(?:(?:[._]|__|[-]*)[a-z0-9]+)+)?: runs of alpha_numeric
\* with one separator between two of them, which is ".", "_", "__" or dashes
name_component(s) ==
    /\ s # << >>
    /\ All(s, alpha_numeric \cup {".", "_", "-"})
    /\ s[1] \in alpha_numeric
    /\ s[Len(s)] \in alpha_numeric
    /\ \A i \in 2..(Len(s) - 1) :
          /\ s[i] = "." => s[i - 1] \in alpha_numeric /\ s[i + 1] \in alpha_numeric
          /\ s[i] = "_" =>
                \/ s[i - 1] \in alpha_numeric /\ s[i + 1] \in alpha_numeric \cup {"_"}
                \/ s[i - 1] = "_" /\ s[i - 2] \in alpha_numeric /\ s[i + 1] \in alpha_numeric
          /\ s[i] = "-" =>
                s[i - 1] \in alpha_numeric \cup {"-"} /\ s[i + 1] \in alpha_numeric \cup {"-"}

\* domain_name_component = (?:[a-zA-Z0-9]|[a-zA-Z0-9][a-zA-Z0-9-]*[a-zA-Z0-9])
domain_name_component(s) ==
    /\ s # << >>
    /\ All(s, Lower \cup Upper \cup Digit \cup {"-"})
    /\ s[1] # "-"
    /\ s[Len(s)] # "-"

\* ipv6_address = \[(?:[a-fA-F0-9:]+)\]
ipv6_address(s) ==
    /\ Len(s) >= 3
    /\ s[1] = "["
    /\ s[Len(s)] = "]"
    /\ All(SubSeq(s, 2, Len(s) - 1),
           Digit \cup {"a", "b", "c", "d", "e", "f", "A", "B", "C", "D", "E", "F", ":"})

\* domain_name = domain_name_component(?:(?:\.domain_name_component)+)?
domain_name(s) == \A i \in DOMAIN Split(s, ".") : domain_name_component(Split(s, ".")[i])

\* host = (?:domain_name|ipv6_address)
host(s) == domain_name(s) \/ ipv6_address(s)

\* domain = host(?::[0-9]+)?
domain(s) ==
    \/ host(s)
    \/ \E k \in 1..(Len(s) - 1) :
          /\ s[k] = ":"
          /\ host(SubSeq(s, 1, k - 1))
          /\ All(SubSeq(s, k + 1, Len(s)), Digit)

\* tag = [\w][\w.-]{0,127}
tag(s) ==
    /\ Len(s) \in 1..128
    /\ s[1] \in Lower \cup Upper \cup Digit \cup {"_"}
    /\ All(s, Lower \cup Upper \cup Digit \cup {"_", ".", "-"})

\* one [A-Za-z][A-Za-z0-9]* word of the algorithm part of DIGEST_REGEXP
digest_algorithm_component(s) ==
    /\ s # << >>
    /\ s[1] \in Lower \cup Upper
    /\ All(s, Lower \cup Upper \cup Digit)

\* the algorithm words, separated by one of [-_+.]
RECURSIVE digest_algorithm(_)
digest_algorithm(s) ==
    IF \E i \in 1..Len(s) : s[i] \in {"-", "_", "+", "."}
    THEN LET i == CHOOSE i \in 1..Len(s) :
                      s[i] \in {"-", "_", "+", "."} /\ \A j \in 1..(i - 1) : s[j] \notin {"-", "_", "+", "."}
         IN digest_algorithm_component(SubSeq(s, 1, i - 1))
                /\ digest_algorithm(SubSeq(s, i + 1, Len(s)))
    ELSE digest_algorithm_component(s)

\* DIGEST_REGEXP = [A-Za-z][A-Za-z0-9]*(?:[-_+.][A-Za-z][A-Za-z0-9]*)*[:][[:xdigit:]]{32,}
DIGEST_REGEXP(s) ==
    LET k == Find(s, ":")
    IN /\ k > 0
       /\ digest_algorithm(SubSeq(s, 1, k - 1))
       /\ Len(s) - k >= 32
       /\ All(SubSeq(s, k + 1, Len(s)),
              Digit \cup {"a", "b", "c", "d", "e", "f", "A", "B", "C", "D", "E", "F"})

\* name_pat = (?:domain/)?name_component(?:(?:/name_component)+)?
name_pat(s) ==
    LET parts == Split(s, "/")
    IN \/ \A i \in DOMAIN parts : name_component(parts[i])
       \/ /\ Len(parts) >= 2
          /\ domain(parts[1])
          /\ \A i \in 2..Len(parts) : name_component(parts[i])

\* the second group of anchored_name, name_pat(?:(?:/name_pat)+)?: every part is a
\* name_component or a domain that the next part, a name_component, follows
name_pats(s) ==
    LET parts == Split(s, "/")
    IN /\ name_component(parts[Len(parts)])
       /\ \A i \in 1..(Len(parts) - 1) :
             \/ name_component(parts[i])
             \/ domain(parts[i]) /\ name_component(parts[i + 1])

\* REFERENCE_REGEXP.findall(name), reference_pat = ^(name_pat)(?::(tag))?(?:@(digest))?$:
\* the groups of every reading of s with the tag starting after position k and the
\* digest after position j; a group that took no part in the match is ""
REFERENCE_REGEXP_findall(s) ==
    {<<SubSeq(s, 1, c[1] - 1), SubSeq(s, c[1] + 1, c[2] - 1), SubSeq(s, c[2] + 1, Len(s))>> :
       c \in {c \in (1..(Len(s) + 1)) \X (1..(Len(s) + 1)) :
                /\ c[1] <= c[2]
                /\ c[2] = Len(s) + 1 \/ s[c[2]] = "@"
                /\ c[1] = c[2] \/ s[c[1]] = ":"
                /\ name_pat(SubSeq(s, 1, c[1] - 1))
                /\ c[1] < c[2] => tag(SubSeq(s, c[1] + 1, c[2] - 1))
                /\ c[2] <= Len(s) => DIGEST_REGEXP(SubSeq(s, c[2] + 1, Len(s)))}}

\* ANCHORED_NAME_REGEXP.findall(name), anchored_name = ^(?:(domain)/)?(name_pats)$: the
\* optional group is greedy, so the part before the first "/" is the domain
\* whenever the match allows it
ANCHORED_NAME_REGEXP_findall(s) ==
    LET index == Find(s, "/")
    IN IF index > 0 /\ domain(SubSeq(s, 1, index - 1)) /\ name_pats(SubSeq(s, index + 1, Len(s)))
       THEN {<<SubSeq(s, 1, index - 1), SubSeq(s, index + 1, Len(s))>>}
       ELSE IF name_pats(s) THEN {<< << >>, s >>}
       ELSE {}

(***************************************************************************)
(* registry_client.digest.Digest, as the specification gives it: a string  *)
(* algorithm:hex is a digest when its algorithm is a known one and its     *)
(* hex part has 32 characters or more; the value and the string of a       *)
(* Digest are the string it was made from.                                 *)
(***************************************************************************)
DigestAlgorithms == {<<"s", "h", "a", "2", "5", "6">>, <<"s", "h", "a", "3", "8", "4">>, <<"s", "h", "a", "5", "1", "2">>}

Digest_is_digest(s) ==
    /\ DIGEST_REGEXP(s)
    /\ SubSeq(s, 1, Find(s, ":") - 1) \in DigestAlgorithms

Digest_value(d) == d

Digest_str(d) == Digest_value(d)

(***************************************************************************)
(* src/registry_client/reference.py: the reference classes and parse.  A   *)
(* reference is a record of its class and fields; a field its class does   *)
(* not have is "" (tag) or None (digest).                                  *)
(***************************************************************************)
NameTotalLengthMax == 255

Raise(exc) == [exc |-> Some(exc), ret |-> None]
Returns(v) == [exc |-> None, ret |-> Some(v)]

\* Reference.name
Reference_name(ref) ==
    IF ref.domain = << >> THEN ref.path ELSE ref.domain \o <<"/">> \o ref.path

NamedReference(d, p) ==
    [class |-> "NamedReference", domain |-> d, path |-> p, tag |-> << >>, digest |-> None]
TaggedReference(d, p, t) ==
    [class |-> "TaggedReference", domain |-> d, path |-> p, tag |-> t, digest |-> None]
DigestReference(dg) ==
    [class |-> "DigestReference", domain |-> << >>, path |-> << >>, tag |-> << >>,
     digest |-> Some(dg)]
CanonicalReference(d, p, dg) ==
    [class |-> "CanonicalReference", domain |-> d, path |-> p, tag |-> << >>,
     digest |-> Some(dg)]
FullReference(d, p, t, dg) ==
    [class |-> "FullReference", domain |-> d, path |-> p, tag |-> t, digest |-> Some(dg)]

\* __str__ of Reference for every class: the name alone
Reference_str_name_only(ref) == Reference_name(ref)

\* __str__ of each class
Reference_str(ref) ==
    IF ref.class = "NamedReference" THEN Reference_name(ref)
    ELSE IF ref.class = "TaggedReference" THEN Reference_name(ref) \o <<":">> \o ref.tag
    ELSE IF ref.class = "DigestReference" THEN Digest_value(The(ref.digest))
    ELSE IF ref.class = "CanonicalReference"
         THEN Reference_name(ref) \o <<"@">> \o Digest_str(The(ref.digest))
    ELSE Reference_name(ref) \o <<":">> \o ref.tag \o <<"@">> \o Digest_value(The(ref.digest))

\* the target property of each class; FullReference defines none of its own and
\* inherits the one of NamedReference (line 158)
Reference_target(ref) ==
    IF ref.class \in {"NamedReference", "FullReference"} THEN <<"l", "a", "t", "e", "s", "t">>
    ELSE IF ref.class = "TaggedReference" THEN ref.tag
    ELSE Digest_value(The(ref.digest))

\* line 186 with the bound off by one
name_too_long_at_max(name) == Len(name) >= NameTotalLengthMax

\* line 186: len(result[0]) > NameTotalLengthMax
name_too_long(name) == Len(name) > NameTotalLengthMax

\* lines 188-213 of parse: the reference built from the three groups of the match
parse_groups(name, tag_group, digest_group) ==
    IF ANCHORED_NAME_REGEXP_findall(name) = {} THEN Raise("IndexError")
    ELSE LET name_match == The(ANCHORED_NAME_REGEXP_findall(name))
             d == name_match[1]
             p == name_match[2]
         IN IF digest_group # << >> /\ ~Digest_is_digest(digest_group)
            THEN Raise("Exception(invalid digest format)")
            ELSE IF Reference_name(NamedReference(d, p)) = << >>
                 THEN (IF digest_group # << >> THEN Returns(DigestReference(digest_group))
                       ELSE Raise("ErrNameEmpty"))
            ELSE IF tag_group = << >>
                 THEN (IF digest_group # << >> THEN Returns(CanonicalReference(d, p, digest_group))
                       ELSE Returns(NamedReference(d, p)))
            ELSE IF digest_group = << >> THEN Returns(TaggedReference(d, p, tag_group))
            ELSE Returns(FullReference(d, p, tag_group, digest_group))

\* parse, lines 170-213
parse(name) ==
    LET found == REFERENCE_REGEXP_findall(name)
    IN IF found = {}
       THEN IF name = << >> THEN Raise("ErrNameEmpty")
            ELSE IF ~islower(name) THEN Raise("ErrNameContainsUppercase")
            ELSE Raise("ErrReferenceInvalidFormat")
       ELSE IF name_too_long(The(found)[1]) THEN Raise("ErrNameTooLong")
       ELSE parse_groups(The(found)[1], The(found)[2], The(found)[3])

\* split_docker_domain without the localhost test of line 218
split_docker_domain_no_localhost(name) ==
    LET index == Find(name, "/")
        prefix == SubSeq(name, 1, index - 1)
        first == IF index = 0 \/ ~(\E i \in 1..Len(prefix) : prefix[i] \in {".", ":"})
                 THEN <<DEFAULT_REGISTRY_HOST, name>>
                 ELSE <<prefix, SubSeq(name, index + 1, Len(name))>>
        d == IF first[1] = <<"i", "n", "d", "e", "x", ".", "d", "o", "c", "k", "e", "r", ".", "i", "o">> THEN DEFAULT_REGISTRY_HOST ELSE first[1]
    IN IF d = DEFAULT_REGISTRY_HOST /\ Find(first[2], "/") = 0
       THEN <<d, DEFAULT_REPO \o <<"/">> \o first[2]>>
       ELSE <<d, first[2]>>

\* split_docker_domain, lines 216-226
split_docker_domain(name) ==
    LET index == Find(name, "/")
        prefix == SubSeq(name, 1, index - 1)
        first == IF index = 0 \/ (~(\E i \in 1..Len(prefix) : prefix[i] \in {".", ":"})
                                   /\ prefix # <<"l", "o", "c", "a", "l", "h", "o", "s", "t">>)
                 THEN <<DEFAULT_REGISTRY_HOST, name>>
                 ELSE <<prefix, SubSeq(name, index + 1, Len(name))>>
        d == IF first[1] = <<"i", "n", "d", "e", "x", ".", "d", "o", "c", "k", "e", "r", ".", "i", "o">> THEN DEFAULT_REGISTRY_HOST ELSE first[1]
    IN IF d = DEFAULT_REGISTRY_HOST /\ Find(first[2], "/") = 0
       THEN <<d, DEFAULT_REPO \o <<"/">> \o first[2]>>
       ELSE <<d, first[2]>>

\* parse_normalized_named, lines 236-246
parse_normalized_named(name) ==
    IF Len(name) = 64 /\ All(name, Digit \cup {"a", "b", "c", "d", "e", "f"})
    THEN Raise("Exception(invalid repository name)")
    ELSE LET remainder == split_docker_domain(name)[2]
             remote_name == IF Find(remainder, ":") # 0
                            THEN SubSeq(remainder, 1, Find(remainder, ":") - 1)
                            ELSE remainder
         IN IF ~islower(remote_name)
            THEN Raise("Exception(repository name must be lowercase)")
            ELSE parse(split_docker_domain(name)[1] \o <<"/">> \o remainder)

(***************************************************************************)
(* registry_client.platforms.Platform, as the specification gives it: os,  *)
(* architecture and an optional variant, equal when all three are equal.   *)
(***************************************************************************)
Platform(os, architecture, variant) ==
    [os |-> os, architecture |-> architecture, variant |-> variant]

Platform_eq(a, b) ==
    a.os = b.os /\ a.architecture = b.architecture /\ a.variant = b.variant

\* class LayerResp, an entry of a manifest list: platform is Optional[Platform]
LayerResp(digest, platform) == [digest |-> digest, platform |-> platform]

\* ManifestsListResp.filter taking the first entry, without the test of line 213
filter_first(manifests, target_platform) ==
    IF manifests = << >> THEN Raise("Exception(Not Found Matching image)")
    ELSE Returns(manifests[1].digest)

\* ManifestsListResp.filter, utlis.py lines 210-218: the loop stops at the first entry
\* whose platform equals the target; its else branch runs when no entry does
filter(manifests, target_platform) ==
    LET matching == {i \in DOMAIN manifests :
                        /\ manifests[i].platform # None
                        /\ Platform_eq(The(manifests[i].platform), target_platform)}
    IN IF matching = {} THEN Raise("Exception(Not Found Matching image)")
       ELSE Returns(manifests[CHOOSE i \in matching : \A j \in matching : i <= j].digest)

(***************************************************************************)
(* Calls of the pure functions, one per behaviour: the argument is drawn   *)
(* in the initial state, the action applies the function to it.            *)
(***************************************************************************)
\* longest manifest list given to filter
MaxManifests == 2

Platforms ==
    {Platform("linux", "amd64", None), Platform("linux", "arm64", None),
     Platform("linux", "arm64", Some("v8")), Platform("windows", "amd64", None)}

\* the lists of at most n entries; the entry at position i has the digest sha256:0i
ManifestLists(n) ==
    UNION {{[i \in 1..k |-> LayerResp(Sha256Prefix \o HexPair(i), ps[i])] :
              ps \in [1..k -> {None} \cup {Some(pf) : pf \in Platforms}]} : k \in 0..n}

Hex32 == <<"0", "1", "2", "3", "4", "5", "6", "7", "8", "9", "a", "b", "c", "d", "e", "f", "0", "1", "2", "3", "4", "5", "6", "7", "8", "9", "a", "b", "c", "d", "e", "f">>

Repeat(c, n) == [i \in 1..n |-> c]

\* strings for parse: a name, then nothing, a tag or a bare colon, then nothing or
\* a digest; names and digests inside and outside the grammar
ParseNames ==
    {<<"f", "o", "o">>, <<"f", "o", "o", "/", "b", "a", "r">>, <<"a", ".", "c", "o", "m", "/", "f", "o", "o">>, <<"a", ".", "c", "o", "m", ":", "8", "0", "/", "f", "o", "o">>, <<"l", "o", "c", "a", "l", "h", "o", "s", "t", "/", "f", "o", "o">>,
     <<"f", "o", "o", "_", "x", "/", "b", "a", "r">>, <<"f", "o", "o", "_", "_", "x">>, <<"f", "o", "o", "-", "-", "b", "a", "r">>, <<"f", "o", "o", ".", "b", "a", "r">>, <<"F", "o", "o", "/", "b", "a", "r">>, <<"[", ":", ":", "1", "]", "/", "f", "o", "o">>,
     <<"a", ".", "c", "o", "m", "/", "1", "2", "3">>, <<"1", "2", "3">>, <<"a", "-", "b", ".", "c", "o", "m", "/", "f", "o", "o", "/", "b", "a", "r">>,
     <<"F", "o", "o">>, <<"a", ".", "c", "o", "m", "/", "F", "o", "o">>, <<"f", "o", "o", "_", "_", "_", "x">>, <<"f", "o", "o", ".", ".", "x">>, <<"-", "f", "o", "o">>, <<"f", "o", "o", "/">>, <<"/", "f", "o", "o">>,
     <<"a", "_", "b", ".", "c", "o", "m", ":", "8", "0", "/", "f", "o", "o">>, <<"1", "2", "-">>, <<"_">>, <<"1", ".">>, << >>}

ParseTags == {<< >>, <<":", "l", "a", "t", "e", "s", "t">>, <<":", "V", "1", ".", "0">>, <<":", "-", "x">>, <<":">>}

ParseDigests ==
    {<< >>, <<"@", "s", "h", "a", "2", "5", "6", ":">> \o Hex32, <<"@", "m", "d", "5", ":">> \o Hex32, <<"@", "s", "h", "a", "2", "5", "6", ":", "a", "b", "c">>}

\* names around the length limit: one component, and a domain with one component
LongNames ==
    UNION {{Repeat("a", NameTotalLengthMax + d),
            <<"a", ".", "c", "o", "m", "/">> \o Repeat("a", NameTotalLengthMax + d - 6)} : d \in {-1, 0, 1}}

ParseInputs ==
    {n \o t \o d : n \in ParseNames, t \in ParseTags, d \in ParseDigests}
        \cup {n \o t : n \in LongNames, t \in {<< >>, <<":", "l", "a", "t", "e", "s", "t">>}}

\* names for split_docker_domain and parse_normalized_named
NormalizedNames ==
    {<<"f", "o", "o">>, <<"f", "o", "o", "/", "b", "a", "r">>, <<"a", ".", "c", "o", "m", "/", "f", "o", "o">>, <<"a", ".", "c", "o", "m", "/", "f", "o", "o", "/", "b", "a", "r">>, <<"a", ".", "c", "o", "m", "/", "1", "2", "3">>, <<"1", "2", "3">>,
     <<"F", "o", "o">>, <<"a", ".", "c", "o", "m", "/", "F", "o", "o">>, <<"F", "O", "O", "/", "b", "a", "r">>, <<"a", ".", "C", "O", "M", "/", "f", "o", "o">>, <<"a", ".", "c", "o", "m">>, <<"l", "o", "c", "a", "l", "h", "o", "s", "t">>,
     <<"l", "o", "c", "a", "l", "h", "o", "s", "t", "/", "f", "o", "o">>, <<"l", "o", "c", "a", "l", "h", "o", "s", "t", ":", "5", "0", "0", "0", "/", "f", "o", "o">>, <<"a", ":", "8", "0", "/", "f", "o", "o">>,
     <<"i", "n", "d", "e", "x", ".", "d", "o", "c", "k", "e", "r", ".", "i", "o", "/", "f", "o", "o">>, <<"i", "n", "d", "e", "x", ".", "d", "o", "c", "k", "e", "r", ".", "i", "o", "/", "l", "i", "b", "r", "a", "r", "y", "/", "f", "o", "o">>,
     <<"r", "e", "g", "i", "s", "t", "r", "y", "-", "1", ".", "d", "o", "c", "k", "e", "r", ".", "i", "o", "/", "f", "o", "o">>, <<"r", "e", "g", "i", "s", "t", "r", "y", "-", "1", ".", "d", "o", "c", "k", "e", "r", ".", "i", "o", "/", "a", "/", "b">>,
     <<"/", "f", "o", "o">>, <<"f", "o", "o", "/">>, << >>}

NormalizedInputs ==
    {n \o t : n \in NormalizedNames,
              t \in {<< >>, <<":", "l", "a", "t", "e", "s", "t">>, <<":", "V", "1">>, <<"@", "s", "h", "a", "2", "5", "6", ":">> \o Hex32}}
        \cup {Hex32 \o Hex32, Tail(Hex32 \o Hex32), <<"A">> \o Tail(Hex32 \o Hex32),
              Hex32 \o Hex32 \o <<"0">>}

\* arguments of pull_image for the RepoTags entry: a tag or a digest as reference
RepoTagArgs ==
    PullArgs({DEFAULT_REGISTRY_HOST, <<"a", ".", "c", "o", "m">>}, {DEFAULT_REPO, <<"l", "i", "b">>},
             {IMAGE_DEFAULT_TAG, DigestA}, {<<"out">>})

Call(fn, a) == Some([fn |-> fn, arg |-> a])

(***************************************************************************)
(* src/registry_client/utlis.py: BearerChallengeHandler.get_auth_header on  *)
(* a handler built with keyword arguments.  The realm is given by what     *)
(* urlparse(realm).hostname is for it: None for a realm without "//".      *)
(***************************************************************************)
\* ChallengeHandler.is_official, line 150, for a realm that has a hostname
is_official(hostname) == EndsWith(hostname, <<"d", "o", "c", "k", "e", "r", ".", "i", "o">>)

\* lines 141-143 and 166: the Authorization header of HTTP Basic
encode_basic_auth(username, password) ==
    [scheme |-> "Basic", username |-> username, password |-> password]

\* TokenResp.registry_token, line 101: access_token or token
registry_token(resp) == IF resp.access_token # "" THEN resp.access_token ELSE resp.token

\* BearerChallengeHandler.get_auth_header, lines 156-172: sent is the headers
\* argument of the token request, None while no request has been made
get_auth_header(handler, resp) ==
    IF handler.hostname = None
    THEN [exc |-> Some("AttributeError"), ret |-> None, sent |-> None]
    ELSE LET basic   == IF is_official(The(handler.hostname)) THEN None
                        ELSE Some(encode_basic_auth(handler.username, handler.password))
         IN IF resp = None
            THEN [exc |-> Some("JSONDecodeError"), ret |-> None, sent |-> Some(basic)]
            ELSE [exc |-> None,
                  ret |-> Some([scheme |-> "Bearer", token |-> registry_token(The(resp))]),
                  sent |-> Some(basic)]

\* hosts of realm URLs, and a realm that has none
RealmHostnames ==
    {None, Some(<<"a", "u", "t", "h", ".", "d", "o", "c", "k", "e", "r", ".", "i", "o">>), Some(<<"d", "o", "c", "k", "e", "r", ".", "i", "o">>), Some(<<"e", "v", "i", "l", "d", "o", "c", "k", "e", "r", ".", "i", "o">>),
     Some(<<"d", "o", "c", "k", "e", "r", ".", "i", "o", ".", "a", ".", "c", "o", "m">>), Some(<<"a", ".", "c", "o", "m">>)}

\* handlers with and without configured credentials
BearerChallengeHandlers ==
    [hostname : RealmHostnames, username : {None, Some("user")}, password : {None, Some("pw")}]

\* bodies of the token endpoint: a token payload, or None for a body that is not one
TokenResponses ==
    {None, Some([token |-> "t1", access_token |-> ""]),
     Some([token |-> "t1", access_token |-> "t2"])}

InitCalls ==
    /\ Constructed
    /\ value = None
    /\ \/ call \in {Call("parse", s) : s \in ParseInputs}
       \/ call \in {Call("parse_normalized_named", s) : s \in NormalizedInputs}
       \/ call \in {Call("split_docker_domain", s) : s \in NormalizedInputs}
       \/ call \in {Call("filter", [manifests |-> ms, target_platform |-> pf]) :
                       ms \in ManifestLists(MaxManifests), pf \in Platforms}
       \/ call \in {Call("get_auth_header", [handler |-> h, resp |-> r]) :
                       h \in BearerChallengeHandlers, r \in TokenResponses}
       \/ call \in {Call("repo_tags", a) :
                       a \in (IF repo = None THEN RepoTagArgs
                              ELSE ScriptArgs({x.host : x \in RepoTagArgs}))}

\* the call named fn has not been made yet
Pending(fn) == call # None /\ The(call).fn = fn /\ value = None

parse_call ==
    /\ Pending("parse")
    /\ value' = Some(parse(The(call).arg))
    /\ UNCHANGED <<call, client, pc, args, auth, locals, jobs, result, disk, requests>>

parse_normalized_named_call ==
    /\ Pending("parse_normalized_named")
    /\ value' = Some(parse_normalized_named(The(call).arg))
    /\ UNCHANGED <<call, client, pc, args, auth, locals, jobs, result, disk, requests>>

split_docker_domain_call ==
    /\ Pending("split_docker_domain")
    /\ value' = Some(Returns(split_docker_domain(The(call).arg)))
    /\ UNCHANGED <<call, client, pc, args, auth, locals, jobs, result, disk, requests>>

filter_call ==
    /\ Pending("filter")
    /\ value' = Some(filter(The(call).arg.manifests, The(call).arg.target_platform))
    /\ UNCHANGED <<call, client, pc, args, auth, locals, jobs, result, disk, requests>>

\* lines 244-247 of pull_image on their own
repo_tags_call ==
    /\ Pending("repo_tags")
    /\ value' = Some(repo_tags_outcome(repo, The(call).arg))
    /\ UNCHANGED <<call, client, pc, args, auth, locals, jobs, result, disk, requests>>

get_auth_header_call ==
    /\ Pending("get_auth_header")
    /\ value' = Some(get_auth_header(The(call).arg.handler, The(call).arg.resp))
    /\ UNCHANGED <<call, client, pc, args, auth, locals, jobs, result, disk, requests>>

NextCalls ==
    \/ parse_call
    \/ parse_normalized_named_call
    \/ split_docker_domain_call
    \/ filter_call
    \/ repo_tags_call
    \/ get_auth_header_call

SpecCalls == InitCalls /\ [][NextCalls]_vars

(***************************************************************************)
(* The claims                                                              *)
(***************************************************************************)
Started == {p \in Pulls : args[p] # None}
Fetched == {p \in Pulls : manifest[p] # None}
WrittenBy(by) == {w.path : w \in {x \in wrote : x.by = by}}
Mismatched(p) ==
    {k \in DOMAIN jobs[p] :
        /\ jobs[p][k].blob # None
        /\ Sha256Hex(The(jobs[p][k].blob)) # From(The(manifest[p]).layers[k], 7)}

\* C1: if the bytes downloaded for a layer hash to something else than the layer's
\* declared digest, the pull ends with the layer digest mismatch error and neither
\* manifest.json nor the archive is written by that pull.
C1_LayerMismatchFailsPull ==
    \A p \in Started :
        Mismatched(p) # {} =>
            /\ manifest_file(The(args[p])) \notin WrittenBy(Main(p))
            /\ archive_file(The(args[p])) \notin WrittenBy(Main(p))
            /\ (pc[p] = "returned" => result[p].exc = Some("AssertionError"))

AssemblyPcs == {"manifest", "last_json", "tar", "rmtree"}
AssemblyFiles(a) ==
    {manifest_file(a), archive_file(a)} \cup
    {layer_dir(a, d) \o << <<"json">> >> : d \in LayerDigests}

\* C2: no assembly step (manifest.json, the last layer's json, the archive) begins
\* before every one of the n layer jobs of the manifest has finished.
C2_AssemblyAfterAllJobs ==
    \A p \in Started :
        (pc[p] \in AssemblyPcs \/ WrittenBy(Main(p)) \cap AssemblyFiles(The(args[p])) # {}) =>
            /\ Len(jobs[p]) = Len(The(manifest[p]).layers)
            /\ \A k \in DOMAIN jobs[p] : jobs[p][k].st \in {"done", "failed"}

\* C2 witness: manifest.json is written for a manifest of at least two layers
C2_Witness ==
    \E p \in Started :
        /\ manifest_file(The(args[p])) \in WrittenBy(Main(p))
        /\ Len(jobs[p]) >= 2

\* C3: the manifest a pull uses was fetched by the digest of the HEAD response's
\* Docker-Content-Digest header and its body passed the content hash check against
\* that digest, whatever the header was.
C3_ManifestPinned ==
    \A p \in Fetched :
        /\ head_resp[p] # None
        /\ main_manifest[p] = The(head_resp[p]).digest
        /\ [method |-> "GET", kind |-> "manifests", ref |-> RefText(main_manifest[p])]
              \in requests[p]
        /\ manifest_resp[p].checked

DigestMismatch(p) ==
    /\ manifest_resp[p].body # None
    /\ main_manifest[p] # None
    /\ StartsWith(The(main_manifest[p]), Sha256Prefix)
    /\ Sha256Hex(The(manifest_resp[p].body)) # From(The(main_manifest[p]), 7)

\* C4: fetch_image_manifest called with a sha256 digest as reference ends in the
\* digest mismatch assertion and does not hand the response to its caller whenever
\* the SHA-256 of the body differs from the hex part of the reference.
C4_ManifestDigestMismatch ==
    \A p \in Pulls :
        DigestMismatch(p) =>
            /\ manifest_resp[p].exc = Some("AssertionError")
            /\ manifest_resp[p].ret = None
            /\ manifest[p] = None

\* C4 witness: a body whose hash differs from the sha256 reference was received
C4_Witness == \E p \in Pulls : DigestMismatch(p)

TmpFiles(a) == {tmp_file(a, i) : i \in 0..MaxLayers}

\* C5: when pull_image has returned, its working directory and every temporary
\* layer file are gone, and it removed nothing outside that directory.
C5_CleanupOnEveryExit ==
    \A p \in Started :
        pc[p] = "returned" =>
            /\ image_save_dir(The(args[p])) \notin fs
            /\ TmpFiles(The(args[p])) \cap fs = {}
            /\ \A r \in removed :
                  r.by[1] = p => StartsWith(r.path, image_save_dir(The(args[p])))

\* C6: a HEAD status other than 200 ends the pull with the not-found error reaching
\* the caller, and the pull issues no manifest GET and no blob request.
C6_NotFoundReachesCaller ==
    \A p \in Started :
        (pc[p] = "returned" /\ head_resp[p] # None /\ The(head_resp[p]).status_code # 200) =>
            /\ result[p].exc = Some("Exception")
            /\ result[p].raised
            /\ ~\E r \in requests[p] :
                  \/ r.kind = "blobs"
                  \/ (r.kind = "manifests" /\ r.method = "GET")

\* C7: within one pull no two layer workers write to the same path.
C7_WorkersShareNoPath ==
    \A w1, w2 \in wrote :
        (w1.by[1] = w2.by[1] /\ w1.by[2] # "main" /\ w2.by[2] # "main" /\ w1.by # w2.by)
            => w1.path # w2.path

\* C8: of two concurrent pulls neither writes or removes a path the other writes.
C8_PullsShareNoPath ==
    \A w1 \in wrote : \A w2 \in wrote \cup removed :
        w1.by[1] # w2.by[1] => w1.path # w2.path

AuthReturned == {p \in Pulls : auth[p].pc = "returned" /\ auth[p].responded}
NoTokenRequest(p) == ~\E r \in requests[p] : r.kind = "token"

\* C9: for a WWW-Authenticate header whose scheme is not Bearer, auth_header returns
\* the empty credential set, raises nothing and contacts no token endpoint.
C9_UnsupportedSchemeIsAnonymous ==
    \A p \in AuthReturned :
        (auth[p].www # None /\ The(auth[p].www).scheme # "Bearer") =>
            /\ auth[p].exc = None
            /\ auth[p].ret = {}
            /\ NoTokenRequest(p)

\* C10: when the ping response carries no WWW-Authenticate header, auth_header
\* returns the empty credential set, parses no challenge and makes no token request.
C10_NoChallengeIsAnonymous ==
    \A p \in AuthReturned :
        auth[p].www = None =>
            /\ auth[p].exc = None
            /\ auth[p].ret = {}
            /\ auth[p].challenge = None
            /\ NoTokenRequest(p)

\* C10 witness: auth_header has returned after a ping response without the header
C10_Witness == \E p \in AuthReturned : auth[p].www = None

\* C11: the client caches no credential: _pinged and _ping_resp stay as constructed,
\* every auth_header call that got past its ping sent that ping itself, and an
\* auth_header call that parsed a Bearer challenge returns after a token exchange.
C11_NoCredentialCached ==
    /\ pinged = FALSE
    /\ ping_resp = None
    /\ \A p \in Pulls :
         auth[p].pc \in {"pinged", "returned"} =>
             \E r \in requests[p] : r.method = "GET" /\ r.kind = "v2"
    /\ \A p \in AuthReturned :
         (auth[p].challenge # None /\ The(auth[p].challenge).scheme = "Bearer") =>
             /\ auth[p].exc = None
             /\ \E r \in requests[p] : r.kind = "token"

\* the RepoTags entry the specification gives for the arguments a of a pull
ExpectedRepoTag(a) ==
    IF a.host = DEFAULT_REGISTRY_HOST /\ a.repo_name = DEFAULT_REPO
    THEN a.image_name \o <<":">> \o a.reference
    ELSE a.host \o <<"/">> \o a.repo_name \o <<"/">> \o a.image_name \o <<":">> \o a.reference

ManifestJsonOpened == {p \in Started : manifest_file(The(args[p])) \in WrittenBy(Main(p))}

\* C13: the RepoTags entry of manifest.json is image:tag exactly when the pull is on
\* the default host with repo_name 'library', and host/repo_name/image:tag otherwise.
C13_RepoTagsByRepoName ==
    \A p \in ManifestJsonOpened :
        /\ manifest_json[p] # None
        /\ The(manifest_json[p]).RepoTags = <<ExpectedRepoTag(The(args[p]))>>

\* C14: on the default host with a namespace other than 'library' the repo tag is
\* namespace/image:tag, the host elided.
C14_DefaultHostElided ==
    \A p \in ManifestJsonOpened :
        LET a == The(args[p])
        IN (a.host = DEFAULT_REGISTRY_HOST /\ a.repo_name # DEFAULT_REPO) =>
              /\ manifest_json[p] # None
              /\ The(manifest_json[p]).RepoTags =
                    << a.repo_name \o <<"/">> \o a.image_name \o <<":">> \o a.reference >>

\* the call named fn has been made and has ended
Called(fn) == call # None /\ The(call).fn = fn /\ value # None

\* C12: filter returns the digest of an entry whose platform equals the target in os,
\* architecture and variant, and fails with the not-found error when no entry does.
C12_FilterByExactPlatform ==
    Called("filter") =>
        LET ms == The(call).arg.manifests
            equal == {i \in DOMAIN ms : ms[i].platform = Some(The(call).arg.target_platform)}
        IN IF equal = {}
           THEN The(value) = Raise("Exception(Not Found Matching image)")
           ELSE /\ The(value).exc = None
                /\ \E i \in equal : The(value).ret = Some(ms[i].digest)

\* C12 witness: of [linux/amd64, linux/arm64] the target linux/arm64 got the second digest
C12_Witness ==
    /\ Called("filter")
    /\ The(call).arg.manifests =
          <<LayerResp(Sha256Prefix \o HexPair(1), Some(Platform("linux", "amd64", None))),
            LayerResp(Sha256Prefix \o HexPair(2), Some(Platform("linux", "arm64", None)))>>
    /\ The(call).arg.target_platform = Platform("linux", "arm64", None)
    /\ The(value) = Returns(Sha256Prefix \o HexPair(2))

\* C15: for a reference that is a digest and carries no tag, no repo tag is produced:
\* the result is absent, not a string built from the digest.
C15_DigestHasNoRepoTag ==
    (Called("repo_tags") /\ StartsWith(The(call).arg.reference, Sha256Prefix)) =>
        The(value) = [exc |-> None, ret |-> None]

\* C16: a string outside the reference grammar is ErrNameEmpty when empty,
\* ErrNameContainsUppercase when it has an uppercase letter, and
\* ErrReferenceInvalidFormat in every other case.
C16_ParseErrorKinds ==
    (Called("parse") /\ REFERENCE_REGEXP_findall(The(call).arg) = {}) =>
        The(value) = Raise(IF The(call).arg = << >> THEN "ErrNameEmpty"
                           ELSE IF \E i \in 1..Len(The(call).arg) : The(call).arg[i] \in Upper
                                THEN "ErrNameContainsUppercase"
                           ELSE "ErrReferenceInvalidFormat")

\* C17: parsing the string of a parsed reference succeeds and gives a reference of
\* the same class with equal domain, path, tag and digest.
C17_ParseStrRoundTrip ==
    (Called("parse") /\ The(value).exc = None) =>
        parse(Reference_str(The(The(value).ret))) = The(value)

\* C17 witness: parse returned a reference with a tag and a digest
C17_Witness ==
    /\ Called("parse")
    /\ The(value).exc = None
    /\ The(The(value).ret).class = "FullReference"

\* C18: a string in the grammar whose name part has more than 255 characters is
\* ErrNameTooLong, a name of exactly 255 characters is accepted, and the name of
\* every reference parse returns has at most 255 characters.
C18_NameLengthLimit ==
    (Called("parse") /\ REFERENCE_REGEXP_findall(The(call).arg) # {}) =>
        LET groups == The(REFERENCE_REGEXP_findall(The(call).arg))
        IN /\ Len(groups[1]) > 255 => The(value) = Raise("ErrNameTooLong")
           /\ (Len(groups[1]) = 255 /\ groups[3] = << >>) => The(value).exc = None
           /\ The(value).exc = None => Len(Reference_name(The(The(value).ret))) <= 255

\* C18 witness: parse returned a reference whose name has exactly 255 characters
C18_Witness ==
    /\ Called("parse")
    /\ The(value).exc = None
    /\ Len(Reference_name(The(The(value).ret))) = 255

\* C19: parse_normalized_named rejects a name exactly when it is 64 lowercase
\* hexadecimal characters or its repository path has an uppercase letter; any other
\* name ends as parse of domain/remainder of split_docker_domain does.
C19_NormalizedNamedRejects ==
    Called("parse_normalized_named") =>
        LET name == The(call).arg
            split == split_docker_domain(name)
            repository == IF Find(split[2], ":") = 0 THEN split[2]
                          ELSE SubSeq(split[2], 1, Find(split[2], ":") - 1)
            rejected == The(value).exc \in {Some("Exception(invalid repository name)"),
                                            Some("Exception(repository name must be lowercase)")}
        IN /\ rejected <=>
                \/ Len(name) = 64 /\ All(name, Digit \cup {"a", "b", "c", "d", "e", "f"})
                \/ \E i \in 1..Len(repository) : repository[i] \in Upper
           /\ ~rejected => The(value) = parse(split[1] \o <<"/">> \o split[2])

\* C20: split_docker_domain takes the whole name as a path on the default host exactly
\* when it has no "/" or its part before the first "/" has neither "." nor ":" and is
\* not localhost; index.docker.io becomes the default host; library/ is put before
\* the path only on the default host and only when the path has no "/"; on any
\* other host the path after the first "/" is returned as it is.
C20_SplitDockerDomain ==
    Called("split_docker_domain") =>
        LET name == The(call).arg
            prefix == Split(name, "/")[1]
            rest == SubSeq(name, Len(prefix) + 2, Len(name))
            bare == \/ Len(Split(name, "/")) = 1
                    \/ /\ \A i \in 1..Len(prefix) : prefix[i] \notin {".", ":"}
                       /\ prefix # <<"l", "o", "c", "a", "l", "h", "o", "s", "t">>
            librarypath(path) == IF Len(Split(path, "/")) > 1 THEN path
                                 ELSE DEFAULT_REPO \o <<"/">> \o path
            got == The(The(value).ret)
        IN /\ The(value).exc = None
           /\ bare => got = <<DEFAULT_REGISTRY_HOST, librarypath(name)>>
           /\ (~bare /\ prefix \in {<<"i", "n", "d", "e", "x", ".", "d", "o", "c", "k", "e", "r", ".", "i", "o">>, DEFAULT_REGISTRY_HOST}) =>
                 got = <<DEFAULT_REGISTRY_HOST, librarypath(rest)>>
           /\ (~bare /\ prefix \notin {<<"i", "n", "d", "e", "x", ".", "d", "o", "c", "k", "e", "r", ".", "i", "o">>, DEFAULT_REGISTRY_HOST}) =>
                 got = <<prefix, rest>>
           /\ name = <<"f", "o", "o">> => got = <<DEFAULT_REGISTRY_HOST, <<"l", "i", "b", "r", "a", "r", "y", "/", "f", "o", "o">>>>
           /\ name = <<"a", ".", "c", "o", "m", "/", "f", "o", "o">> => got = <<<<"a", ".", "c", "o", "m">>, <<"f", "o", "o">>>>

\* C20 witness: localhost/foo was split into the host localhost and the path foo
C20_Witness ==
    /\ Called("split_docker_domain")
    /\ The(call).arg = <<"l", "o", "c", "a", "l", "h", "o", "s", "t", "/", "f", "o", "o">>
    /\ The(value) = Returns(<<<<"l", "o", "c", "a", "l", "h", "o", "s", "t">>, <<"f", "o", "o">>>>)

\* the hexadecimal part of the layer digests the registry serves
LayerDigestHex(d) == IF d = DigestA THEN <<"a", "a">> ELSE <<"b", "b">>

\* C21: the Layers array of manifest.json has one entry per layer of the manifest,
\* <digestHex>/layer.tar, in the manifest's order, under every interleaving of the
\* layer jobs.
C21_LayersInManifestOrder ==
    \A p \in Pulls :
        manifest_json[p] # None =>
            LET layers == The(manifest[p]).layers
                written == The(manifest_json[p]).Layers
            IN /\ Len(written) = Len(layers)
               /\ \A k \in 1..Len(layers) :
                     written[k] = LayerDigestHex(layers[k]) \o <<"/layer.tar">>

\* C21 witness: manifest.json was dumped for a manifest of two different layers
C21_Witness ==
    \E p \in Pulls :
        /\ manifest_json[p] # None
        /\ The(manifest[p]).layers = <<DigestB, DigestA>>

\* the hexadecimal part of ConfigDigest, the config digest every manifest declares
ConfigDigestHex == <<"c", "1">>

\* C22: the config file at the image root and the Config entry of manifest.json are
\* named <configDigest>.json by the config digest the manifest declares, whatever
\* body the registry returns for that blob.
C22_ConfigNamedByDeclaredDigest ==
    \A p \in Fetched :
        /\ \A b \in {ConfigJson1, ConfigJson2, ErrorText} :
              config_file(The(args[p]), Sha256Hex(b)) \in WrittenBy(Main(p)) =>
                  Sha256Hex(b) = ConfigDigestHex
        /\ manifest_json[p] # None =>
              The(manifest_json[p]).Config = ConfigDigestHex \o <<".json">>

\* C23: the target of a reference parse returns is its tag when it has a tag, and
\* its digest value when it has a digest and no tag.
C23_TargetIsTagOrDigest ==
    (Called("parse") /\ The(value).exc = None) =>
        LET ref == The(The(value).ret)
        IN /\ ref.tag # << >> => Reference_target(ref) = ref.tag
           /\ (ref.tag = << >> /\ ref.digest # None) => Reference_target(ref) = The(ref.digest)

\* C24: the token request carries the configured username and password as HTTP
\* Basic credentials exactly when the host of the realm is not the public registry
\* host docker.io (or a host under it); a host that only ends with the same
\* characters gets the credentials, the public host an unauthenticated request.
C24_CredentialsUnlessPublicHost ==
    (Called("get_auth_header") /\ The(value).sent # None) =>
        LET handler == The(call).arg.handler
            hostname == The(handler.hostname)
            public == hostname = <<"d", "o", "c", "k", "e", "r", ".", "i", "o">> \/ EndsWith(hostname, <<".", "d", "o", "c", "k", "e", "r", ".", "i", "o">>)
        IN The(The(value).sent) =
              IF public THEN None
              ELSE Some([scheme |-> "Basic", username |-> handler.username,
                         password |-> handler.password])

\* paths created or written by a pull, its workers included
WrittenByPull(p) == {w.path : w \in {x \in wrote : x.by[1] = p}}
BlobRequests(p) == {r \in requests[p] : r.kind = "blobs"}
ManifestVerified(p) ==
    /\ head_resp[p] # None
    /\ The(head_resp[p]).status_code = 200
    /\ manifest_resp[p].checked

\* C25: within one pull no config or layer blob is requested and no file is created
\* by the pull before the manifest HEAD has returned 200 and the fetched manifest
\* body has passed its digest check; a pull that failed at an earlier step has left
\* no file of its own on disk.
C25_StepsGateEachOther ==
    \A p \in Started :
        /\ (BlobRequests(p) # {} \/ WrittenByPull(p) # {}) => ManifestVerified(p)
        /\ (pc[p] = "returned" /\ image_config[p] = None) => WrittenByPull(p) \cap fs = {}

====
